---- MODULE Spec2Model ----
(***************************************************************************)
(* sanctum-stored-account: SmallAccount (small_account.rs) and             *)
(* sanctum-solana-test-utils: ExtendedProgramTest                          *)
(* (extended_program_test.rs).                                             *)
(*                                                                         *)
(* A byte is a natural number below 256, a byte slice is a sequence of     *)
(* bytes (1-based here, 0-based in the source), a Pubkey is the number of  *)
(* the key (0 is Pubkey::default(), the all-zero key), u64 values are      *)
(* naturals.  A call that panics has the outcome [tag |-> "Panic"].        *)
(***************************************************************************)
EXTENDS Naturals, Sequences, FiniteSets

VARIABLES acct, last, accounts, calls

vars == <<acct, last, accounts, calls>>

(* ---------------------------------------------------------------- bounds *)

\* payload contents: byte i of the payload with seed d is (d + i) % 256
MaxSeed == 1

(* ------------------------------------------------------------- constants *)

SMALL_ACCOUNT_DATA_MAX_LEN == 15

SMALL_ACCOUNT_DATA_MAX_LEN_USIZE == SMALL_ACCOUNT_DATA_MAX_LEN

U8_MAX == 255

\* the variables that hold a SmallAccount (or nothing yet)
Slots == {"a", "b"}

None == [tag |-> "None"]

Panic == [tag |-> "Panic"]

Ok(v) == [tag |-> "Ok", val |-> v]

Err(e) == [tag |-> "Err", err |-> e]

DataTooLong == "DataTooLong"

\* the values the inputs are drawn from
LamportsVals == {0, 100}

RentEpochVals == {0, 5}

Pubkeys == {0, 1}

Payload(n, d) == [i \in 1..n |-> (d + i) % (U8_MAX + 1)]

\* payloads of every length from 0 to one past the capacity
Payloads == {Payload(n, d) : n \in 0..(SMALL_ACCOUNT_DATA_MAX_LEN_USIZE + 1), d \in 0..MaxSeed}

SmallAccountTryNewParams ==
  [data : Payloads, lamports : LamportsVals, rent_epoch : RentEpochVals,
   owner : Pubkeys, executable : BOOLEAN]

(* ------------------------------------------------------------ SmallAccount *)

\* a buffer that is not zeroed
DefaultDataDirty == [i \in 1..SMALL_ACCOUNT_DATA_MAX_LEN_USIZE |-> U8_MAX]

\* <[u8; 15] as Default>::default()
DefaultData == [i \in 1..SMALL_ACCOUNT_DATA_MAX_LEN_USIZE |-> 0]

\* #[derive(Default)] for SmallAccount
DefaultSmallAccount ==
  [data |-> DefaultData, len |-> 0, lamports |-> 0, rent_epoch |-> 0,
   owner |-> 0, executable |-> FALSE]

\* <[u8]>::copy_from_slice: panics unless the two slices have the same length
copy_from_slice(dst, src) ==
  IF Len(dst) # Len(src) THEN Panic ELSE Ok(src)

\* usize -> u8, try_into().unwrap()
try_into_u8(n) == IF n > U8_MAX THEN Panic ELSE Ok(n)

\* try_new without the assignment of res.len
try_new_len_unset(p) ==
  LET len == Len(p.data) IN
  IF len > SMALL_ACCOUNT_DATA_MAX_LEN_USIZE THEN Err(DataTooLong)
  ELSE
    LET res == [data |-> DefaultData, len |-> 0, lamports |-> p.lamports,
                rent_epoch |-> p.rent_epoch, owner |-> p.owner,
                executable |-> p.executable]
        cp == copy_from_slice(res.data, p.data)
    IN IF cp.tag = "Panic" THEN Panic ELSE Ok([res EXCEPT !.data = cp.val])

\* try_new without the capacity check, copying what fits
try_new_unchecked(p) ==
  LET len == Len(p.data)
      res == [data |-> DefaultData, len |-> 0, lamports |-> p.lamports,
              rent_epoch |-> p.rent_epoch, owner |-> p.owner,
              executable |-> p.executable]
      l8 == try_into_u8(len)
  IN IF l8.tag = "Panic" THEN Panic
     ELSE Ok([res EXCEPT !.data = [i \in 1..SMALL_ACCOUNT_DATA_MAX_LEN_USIZE |->
                                     IF i <= len THEN p.data[i] ELSE 0],
                         !.len = l8.val])

try_new(p) ==
  LET len == Len(p.data) IN
  IF len > SMALL_ACCOUNT_DATA_MAX_LEN_USIZE THEN Err(DataTooLong)
  ELSE
    LET res == [data |-> DefaultData, len |-> 0, lamports |-> p.lamports,
                rent_epoch |-> p.rent_epoch, owner |-> p.owner,
                executable |-> p.executable]
        cp == copy_from_slice(res.data, p.data)
        l8 == try_into_u8(len)
    IN IF cp.tag = "Panic" THEN Panic
       ELSE IF l8.tag = "Panic" THEN Panic
       ELSE Ok([res EXCEPT !.data = cp.val, !.len = l8.val])

\* &self.data[..self.len.into()]: panics when len is past the end of the buffer
data_slice(self) ==
  IF self.len > Len(self.data) THEN Panic
  ELSE Ok(SubSeq(self.data, 1, self.len))

\* the tuple struct SmallAccountDataRef(pub &[u8])
SmallAccountDataRef(s) == <<s>>

\* Deref for SmallAccountDataRef: &self.0
deref(r) == r[1]

\* ReadonlyAccountData::data
data(self) ==
  LET s == data_slice(self) IN
  IF s.tag = "Panic" THEN Panic ELSE Ok(SmallAccountDataRef(s.val))

executable(self) == self.executable

\* lamports() that reads the neighbouring u64
lamports_swapped(self) == self.rent_epoch

lamports(self) == self.lamports

owner(self) == self.owner

rent_epoch(self) == self.rent_epoch

\* #[derive(PartialEq)]: every field, the whole buffer
eq_derived(self, other) ==
  Ok(/\ self.data = other.data
     /\ self.len = other.len
     /\ self.lamports = other.lamports
     /\ self.rent_epoch = other.rent_epoch
     /\ self.owner = other.owner
     /\ self.executable = other.executable)

\* PartialEq for SmallAccount
eq(self, other) ==
  LET s == data_slice(self)
      o == data_slice(other)
  IN IF s.tag = "Panic" \/ o.tag = "Panic" THEN Panic
     ELSE Ok(/\ s.val = o.val
             /\ self.lamports = other.lamports
             /\ self.rent_epoch = other.rent_epoch
             /\ self.owner = other.owner
             /\ self.executable = other.executable)

\* what a Hasher is fed: one item per write
Item(k, v) == [k |-> k, v |-> v]

\* Hash for [u8]: the length prefix, then the bytes
hash_slice(s) == <<Item("len", Len(s))>> \o [i \in 1..Len(s) |-> Item("u8", s[i])]

hash_u64(n) == <<Item("u64", n)>>

\* Hash for Pubkey: the 32 bytes of the key, as one item
hash_pubkey(k) == <<Item("pubkey", k)>>

\* Hash for bool: write_u8(b as u8)
hash_bool(b) == <<Item("u8", IF b THEN 1 ELSE 0)>>

\* hash() over the whole buffer in place of data_slice()
hash_buffer(self) ==
  Ok(hash_slice(self.data) \o hash_u64(self.lamports) \o hash_u64(self.rent_epoch)
     \o hash_pubkey(self.owner) \o hash_bool(self.executable))

\* Hash for SmallAccount: what hash() feeds to a fresh hasher
hash(self) ==
  LET s == data_slice(self) IN
  IF s.tag = "Panic" THEN Panic
  ELSE Ok(hash_slice(s.val) \o hash_u64(self.lamports) \o hash_u64(self.rent_epoch)
          \o hash_pubkey(self.owner) \o hash_bool(self.executable))

(* ------------------------------------------------- the account program *)

Rest == UNCHANGED <<accounts, calls>>

\* a is the first binding of the program and b a later one: b is bound once a is
MayBind(s) == acct[s] = None /\ (s = "b" => acct["a"] # None)

\* let a = SmallAccount::try_new(p)
TryNew(s) ==
  /\ MayBind(s)
  /\ \E p \in SmallAccountTryNewParams :
       LET r == try_new(p) IN
       /\ last' = [op |-> "try_new", slot |-> s, arg |-> p, out |-> r]
       /\ acct' = IF r.tag = "Ok" THEN [acct EXCEPT ![s] = r.val] ELSE acct
  /\ Rest

\* let s = SmallAccount::default()
DefaultNew(s) ==
  /\ MayBind(s)
  /\ acct' = [acct EXCEPT ![s] = DefaultSmallAccount]
  /\ last' = [op |-> "default", slot |-> s, arg |-> None, out |-> Ok(DefaultSmallAccount)]
  /\ Rest

\* let t = s  (Clone, Copy)
CopyFrom(s, t) ==
  /\ acct[s] # None
  /\ MayBind(t)
  /\ acct' = [acct EXCEPT ![t] = acct[s]]
  /\ last' = [op |-> "copy", slot |-> t, arg |-> s, out |-> Ok(acct[s])]
  /\ Rest

\* s.lamports = v  (pub field)
SetLamports(s) ==
  /\ acct[s] # None
  /\ \E v \in LamportsVals :
       /\ acct' = [acct EXCEPT ![s].lamports = v]
       /\ last' = [op |-> "set_lamports", slot |-> s, arg |-> v, out |-> None]
  /\ Rest

\* s.rent_epoch = v  (pub field)
SetRentEpoch(s) ==
  /\ acct[s] # None
  /\ \E v \in RentEpochVals :
       /\ acct' = [acct EXCEPT ![s].rent_epoch = v]
       /\ last' = [op |-> "set_rent_epoch", slot |-> s, arg |-> v, out |-> None]
  /\ Rest

\* s.owner = v  (pub field)
SetOwner(s) ==
  /\ acct[s] # None
  /\ \E v \in Pubkeys :
       /\ acct' = [acct EXCEPT ![s].owner = v]
       /\ last' = [op |-> "set_owner", slot |-> s, arg |-> v, out |-> None]
  /\ Rest

\* s.executable = v  (pub field)
SetExecutable(s) ==
  /\ acct[s] # None
  /\ \E v \in BOOLEAN :
       /\ acct' = [acct EXCEPT ![s].executable = v]
       /\ last' = [op |-> "set_executable", slot |-> s, arg |-> v, out |-> None]
  /\ Rest

\* s.data_slice(), with a take of the buffer in place of the borrow
DataSliceCallTake(s) ==
  /\ acct[s] # None
  /\ last' = [op |-> "data_slice", slot |-> s, arg |-> None, out |-> data_slice(acct[s])]
  /\ acct' = [acct EXCEPT ![s].data = DefaultData, ![s].len = 0]
  /\ Rest

\* s.data_slice()
DataSliceCall(s) ==
  /\ acct[s] # None
  /\ last' = [op |-> "data_slice", slot |-> s, arg |-> None, out |-> data_slice(acct[s])]
  /\ UNCHANGED acct
  /\ Rest

\* s.data()
DataCall(s) ==
  /\ acct[s] # None
  /\ last' = [op |-> "data", slot |-> s, arg |-> None, out |-> data(acct[s])]
  /\ UNCHANGED acct
  /\ Rest

\* s.executable()
ExecutableCall(s) ==
  /\ acct[s] # None
  /\ last' = [op |-> "executable", slot |-> s, arg |-> None, out |-> Ok(executable(acct[s]))]
  /\ UNCHANGED acct
  /\ Rest

\* s.lamports()
LamportsCall(s) ==
  /\ acct[s] # None
  /\ last' = [op |-> "lamports", slot |-> s, arg |-> None, out |-> Ok(lamports(acct[s]))]
  /\ UNCHANGED acct
  /\ Rest

\* s.owner()
OwnerCall(s) ==
  /\ acct[s] # None
  /\ last' = [op |-> "owner", slot |-> s, arg |-> None, out |-> Ok(owner(acct[s]))]
  /\ UNCHANGED acct
  /\ Rest

\* s.rent_epoch()
RentEpochCall(s) ==
  /\ acct[s] # None
  /\ last' = [op |-> "rent_epoch", slot |-> s, arg |-> None, out |-> Ok(rent_epoch(acct[s]))]
  /\ UNCHANGED acct
  /\ Rest

\* s == t
EqCall(s, t) ==
  /\ acct[s] # None
  /\ acct[t] # None
  /\ last' = [op |-> "eq", slot |-> s, arg |-> t, out |-> eq(acct[s], acct[t])]
  /\ UNCHANGED acct
  /\ Rest

\* s.hash(&mut hasher)
HashCall(s) ==
  /\ acct[s] # None
  /\ last' = [op |-> "hash", slot |-> s, arg |-> None, out |-> hash(acct[s])]
  /\ UNCHANGED acct
  /\ Rest

NoCall == [op |-> "none", slot |-> "a", arg |-> None, out |-> None]

Init ==
  /\ acct = [s \in Slots |-> None]
  /\ last = NoCall
  /\ accounts = <<>>
  /\ calls = <<>>

Next ==
  \/ TryNew("a")
  \/ \E s \in Slots :
       \/ DefaultNew(s)
       \/ \E t \in Slots : CopyFrom(t, s)
       \/ SetLamports(s)
       \/ SetRentEpoch(s)
       \/ SetOwner(s)
       \/ SetExecutable(s)
       \/ DataSliceCall(s)
       \/ DataCall(s)
       \/ ExecutableCall(s)
       \/ LamportsCall(s)
       \/ OwnerCall(s)
       \/ RentEpochCall(s)
       \/ \E t \in Slots : EqCall(s, t)
       \/ HashCall(s)

Spec == Init /\ [][Next]_vars

(* ------------------------------------- eq and hash on the values of the type *)

\* padding bytes of the values compared: 0 .. MaxPad
MaxPad == 1

\* a buffer that holds the payload of length n and seed d, then the byte fill
Buf(n, d, fill) ==
  [i \in 1..SMALL_ACCOUNT_DATA_MAX_LEN_USIZE |-> IF i <= n THEN Payload(n, d)[i] ELSE fill]

Lens == 0..SMALL_ACCOUNT_DATA_MAX_LEN_USIZE

\* the first value: any length up to the capacity, any padding
FirstValues ==
  {[data |-> Buf(n, 0, f), len |-> n, lamports |-> 100, rent_epoch |-> 5,
    owner |-> 1, executable |-> TRUE] : n \in Lens, f \in 0..MaxPad}

Refill(x, f) ==
  [x EXCEPT !.data = [i \in 1..SMALL_ACCOUNT_DATA_MAX_LEN_USIZE |->
                        IF i <= x.len THEN x.data[i] ELSE f]]

\* x with one thing changed, or nothing: the length, one byte of the buffer, one
\* of the four metadata fields
Changed(x) ==
  {x}
  \cup {[x EXCEPT !.len = m] : m \in Lens}
  \cup {[x EXCEPT !.data[k] = (@ + 1) % (U8_MAX + 1)] : k \in 1..SMALL_ACCOUNT_DATA_MAX_LEN_USIZE}
  \cup {[x EXCEPT !.lamports = 0], [x EXCEPT !.rent_epoch = 0],
        [x EXCEPT !.owner = 0], [x EXCEPT !.executable = FALSE]}

\* the second value: the first with one thing changed and its padding refilled
SecondValues(x) == {Refill(y, f) : y \in Changed(x), f \in 0..MaxPad} \cup Changed(x)

\* two values of the struct (data and len are written inside the module only):
\* every len <= capacity, with any bytes past len
InitVal ==
  /\ \E x \in FirstValues : \E y \in SecondValues(x) :
       acct = [s \in Slots |-> IF s = "a" THEN x ELSE y]
  /\ last = NoCall
  /\ accounts = <<>>
  /\ calls = <<>>

NextVal ==
  \E s \in Slots :
    \/ DataSliceCall(s)
    \/ DataCall(s)
    \/ \E t \in Slots : EqCall(s, t)
    \/ HashCall(s)

SpecVal == InitVal /\ [][NextVal]_vars

(* --------------------------------------------------- ExtendedProgramTest *)

\* calls in one chain
MaxChain == 2

\* solana_sdk::account::Account
AccountVals ==
  {[lamports |-> l, data |-> <<>>, owner |-> o, executable |-> FALSE, rent_epoch |-> 0] :
     l \in LamportsVals, o \in Pubkeys}

KeyedAccounts == [pubkey : Pubkeys, account : AccountVals]

\* a key as it is written in a fixture
PubkeyStrings == {"key0", "key1"}

\* the key a string of a fixture stands for
ParsePubkey(str) == IF str = "key0" THEN 0 ELSE 1

\* the account of a fixture: keys are strings
UiAccounts ==
  {[lamports |-> l, data |-> <<>>, owner |-> o, executable |-> FALSE, rentEpoch |-> 0] :
     l \in LamportsVals, o \in PubkeyStrings}

KeyedUiAccounts == [pubkey : PubkeyStrings, account : UiAccounts]

\* KeyedUiAccount::to_keyed_account
to_keyed_account(kui) ==
  [pubkey |-> ParsePubkey(kui.pubkey),
   account |-> [lamports |-> kui.account.lamports, data |-> kui.account.data,
                owner |-> ParsePubkey(kui.account.owner),
                executable |-> kui.account.executable,
                rent_epoch |-> kui.account.rentEpoch]]

\* the fixture files
Paths == {"a.json", "b.json"}

\* KeyedUiAccount::from_file
from_file(path) ==
  IF path = "a.json"
  THEN [pubkey |-> "key0",
        account |-> [lamports |-> 100, data |-> <<>>, owner |-> "key1",
                     executable |-> FALSE, rentEpoch |-> 0]]
  ELSE [pubkey |-> "key1",
        account |-> [lamports |-> 0, data |-> <<>>, owner |-> "key0",
                     executable |-> FALSE, rentEpoch |-> 0]]

\* self.add_account(address, account): self is the list of the registrations made
add_account(self, address, account) == Append(self, <<address, account>>)

add_account_chained(self, address, account) == add_account(self, address, account)

\* add_keyed_account that returns self without the delegation
add_keyed_account_dropped(self, keyed_account) == self

add_keyed_account(self, keyed_account) ==
  add_account_chained(self, keyed_account.pubkey, keyed_account.account)

add_keyed_ui_account(self, keyed_ui_account) ==
  add_keyed_account(self, to_keyed_account(keyed_ui_account))

add_account_from_file(self, json_file_path) ==
  add_keyed_ui_account(self, from_file(json_file_path))

Call(m, arg) == [m |-> m, arg |-> arg]

Chain == Len(calls) < MaxChain /\ UNCHANGED <<acct, last>>

AddAccountChained ==
  /\ Chain
  /\ \E address \in Pubkeys, account \in AccountVals :
       /\ accounts' = add_account_chained(accounts, address, account)
       /\ calls' = Append(calls, Call("add_account_chained",
                                      [address |-> address, account |-> account]))

AddKeyedAccount ==
  /\ Chain
  /\ \E keyed_account \in KeyedAccounts :
       /\ accounts' = add_keyed_account(accounts, keyed_account)
       /\ calls' = Append(calls, Call("add_keyed_account", keyed_account))

AddKeyedUiAccount ==
  /\ Chain
  /\ \E keyed_ui_account \in KeyedUiAccounts :
       /\ accounts' = add_keyed_ui_account(accounts, keyed_ui_account)
       /\ calls' = Append(calls, Call("add_keyed_ui_account", keyed_ui_account))

AddAccountFromFile ==
  /\ Chain
  /\ \E json_file_path \in Paths :
       /\ accounts' = add_account_from_file(accounts, json_file_path)
       /\ calls' = Append(calls, Call("add_account_from_file", json_file_path))

NextBuilder ==
  \/ AddAccountChained
  \/ AddKeyedAccount
  \/ AddKeyedUiAccount
  \/ AddAccountFromFile

\* ProgramTest::default(): nothing registered by the chain yet
SpecBuilder == Init /\ [][NextBuilder]_vars

(* ----------------------------------------------------------------- claims *)

Cap == SMALL_ACCOUNT_DATA_MAX_LEN_USIZE

Bound(s) == acct[s] # None

IsTryNew == last.op = "try_new"

Returned == IsTryNew /\ last.out.tag = "Ok"

\* C1: try_new has two outcomes and no other: Err(DataTooLong) when the payload
\* is longer than the capacity, Ok(account) when it is not (n = 0 and n = 15
\* included); it never panics.
C1_TwoOutcomes ==
  IsTryNew =>
    LET n == Len(last.arg.data) IN
    /\ n > Cap => (last.out.tag = "Err" /\ last.out.err = DataTooLong)
    /\ n <= Cap => last.out.tag = "Ok"

\* C2: whenever try_new returns an account, the account's len is the payload's
\* length and data_slice() is the payload, byte for byte.
C2_RoundTrip ==
  Returned =>
    LET x == last.out.val
        d == last.arg.data
        s == data_slice(x)
    IN /\ x.len = Len(d)
       /\ s.tag = "Ok"
       /\ Len(s.val) = Len(d)
       /\ \A i \in 1..Len(d) : s.val[i] = d[i]

C2_Witness == Returned /\ Len(last.arg.data) = Cap /\ last.arg.data[Cap] # 0

\* the first len bytes agree and the four metadata fields agree
SameLogical(x, y) ==
  /\ x.len = y.len
  /\ \A i \in 1..x.len : x.data[i] = y.data[i]
  /\ x.lamports = y.lamports
  /\ x.rent_epoch = y.rent_epoch
  /\ x.owner = y.owner
  /\ x.executable = y.executable

\* C3: a == b exactly when the first len bytes and the four metadata fields
\* agree; the bytes of the buffer past len have no part in it, and one metadata
\* field changed makes the values unequal.
C3_EqIffLogical ==
  last.op = "eq" =>
    /\ last.out.tag = "Ok"
    /\ last.out.val <=> SameLogical(acct[last.slot], acct[last.arg])

C3_Witness ==
  /\ last.op = "eq"
  /\ last.out.tag = "Ok"
  /\ last.out.val
  /\ acct[last.slot].data # acct[last.arg].data

\* the feed of the claim: the length and the first len bytes, then lamports,
\* rent_epoch, owner, executable
LogicalFeed(x) ==
  <<Item("len", x.len)>> \o [i \in 1..x.len |-> Item("u8", x.data[i])]
  \o <<Item("u64", x.lamports), Item("u64", x.rent_epoch), Item("pubkey", x.owner),
       Item("u8", IF x.executable THEN 1 ELSE 0)>>

\* C4: hash() feeds the hasher data_slice(), then lamports, rent_epoch, owner and
\* executable, so two values that compare equal feed it the same, whatever
\* the bytes past len.
C4_HashConsistent ==
  /\ last.op = "hash" => (last.out.tag = "Ok" /\ last.out.val = LogicalFeed(acct[last.slot]))
  /\ \A s, t \in Slots :
       (Bound(s) /\ Bound(t) /\ eq(acct[s], acct[t]) = Ok(TRUE)) => hash(acct[s]) = hash(acct[t])

C4_Witness ==
  /\ last.op = "hash"
  /\ eq(acct["a"], acct["b"]) = Ok(TRUE)
  /\ acct["a"].data # acct["b"].data
  /\ acct["a"].len > 0

\* C5: every value made by try_new, Default or a copy has 0 <= len <= 15, and
\* data_slice() on it does not panic and returns the first len bytes, no more.
C5_LenWithinCapacity ==
  \A s \in Slots :
    Bound(s) =>
      LET x == acct[s]
          sl == data_slice(x)
      IN /\ x.len \in 0..Cap
         /\ sl.tag = "Ok"
         /\ Len(sl.val) = x.len
         /\ \A i \in 1..x.len : sl.val[i] = x.data[i]

C5_Witness ==
  /\ Bound("a") /\ acct["a"].len = Cap
  /\ Bound("b") /\ acct["b"].len = 0
  /\ last.op = "data_slice"

Methods == {"data_slice", "data", "executable", "lamports", "owner", "rent_epoch", "eq", "hash"}

\* C6 as stated: once a value exists, nothing the public interface offers changes
\* any of its six fields.
C6_Immutable == [][\A s \in Slots : Bound(s) => acct'[s] = acct[s]]_vars

\* C6 amended: data and len of a value never change, and a call of data_slice,
\* of an accessor, of == or of hash changes no field.
C6_PrivateFieldsFrozen ==
  [][\A s \in Slots :
       Bound(s) =>
         /\ acct'[s] # None
         /\ acct'[s].data = acct[s].data
         /\ acct'[s].len = acct[s].len
         /\ last'.op \in Methods => acct'[s] = acct[s]]_vars

C6_Witness ==
  /\ Bound("a") /\ acct["a"].len = Cap
  /\ last.op = "data_slice" /\ last.slot = "a"
  /\ last.out.tag = "Ok" /\ Len(last.out.val) = Cap

\* C7: on the account try_new returns, the accessors give the inputs back:
\* lamports, rent_epoch, owner, executable, and data() dereferences to
\* data_slice().
C7_AccessorsVerbatim ==
  Returned =>
    LET x == last.out.val
        p == last.arg
    IN /\ lamports(x) = p.lamports
       /\ rent_epoch(x) = p.rent_epoch
       /\ owner(x) = p.owner
       /\ executable(x) = p.executable
       /\ data(x).tag = "Ok"
       /\ data_slice(x).tag = "Ok"
       /\ deref(data(x).val) = data_slice(x).val

C7_Witness ==
  /\ Returned
  /\ last.arg.lamports = 100 /\ last.arg.rent_epoch = 5
  /\ last.arg.owner = 1 /\ last.arg.executable

\* C8: an account that try_new returns has data len < SMALL_ACCOUNT_DATA_MAX_LEN.
C8_LenBelowMax == Returned => last.out.val.len < SMALL_ACCOUNT_DATA_MAX_LEN

\* the registration a call stands for
Registration(c) ==
  CASE c.m = "add_account_chained" -> <<c.arg.address, c.arg.account>>
    [] c.m = "add_keyed_account" -> <<c.arg.pubkey, c.arg.account>>
    [] c.m = "add_keyed_ui_account" ->
         <<to_keyed_account(c.arg).pubkey, to_keyed_account(c.arg).account>>
    [] c.m = "add_account_from_file" ->
         <<to_keyed_account(from_file(c.arg)).pubkey, to_keyed_account(from_file(c.arg)).account>>

\* C9: after a chain of calls the registrations are those of the calls, one for
\* each call, in the order of the calls; add_keyed_account registers what
\* add_account_chained registers for the same pair.
C9_OneRegistrationPerCall ==
  /\ Len(accounts) = Len(calls)
  /\ \A i \in 1..Len(calls) : accounts[i] = Registration(calls[i])

C9_Witness ==
  /\ Len(calls) = 2
  /\ calls[1].m = "add_account_from_file"
  /\ calls[2].m = "add_keyed_account"
  /\ accounts[1] # accounts[2]

\* C10: in a value made by try_new or Default every byte of the buffer past len
\* is zero, so two such values that are equal are the same bytes.
C10_PaddingZero ==
  /\ \A s \in Slots :
       Bound(s) => \A i \in (acct[s].len + 1)..Cap : acct[s].data[i] = 0
  /\ \A s, t \in Slots :
       (Bound(s) /\ Bound(t) /\ eq(acct[s], acct[t]) = Ok(TRUE)) => acct[s] = acct[t]

C10_Witness ==
  /\ Bound("a") /\ Bound("b")
  /\ acct["a"].len = 0
  /\ acct["a"] = acct["b"]
  /\ last.op = "eq" /\ last.out = Ok(TRUE)

====
